---- MODULE Spec2Model ----
(***************************************************************************)
(* Model of src/live_visualizer.py: class CongestionVisualizer.            *)
(*                                                                         *)
(* Two flows of control share one lock: the capture thread                 *)
(* (capture_packets) and the animation timer callback (update_plot).       *)
(* Numbers that Python holds as floats are exact rationals <<n, d>> here   *)
(* (d > 0, lowest terms); optional values are None == <<>> or <<x>>.       *)
(* The wall clock counts whole seconds.  Drawing (matplotlib calls)   *)
(* is left out: it does not write any of the fields modelled here.         *)
(***************************************************************************)
EXTENDS Integers, Sequences, FiniteSets, TLC

(* ------------------------------ bounds -------------------------------- *)
\* capacity of every history deque (constructor argument history_length)
history_length == 2
\* number of update_plot calls explored
MaxTicks == 3
\* number of packets the capture delivers
MaxPackets == 2
\* the wall clock is explored from its start up to start + MaxAdvance seconds
MaxAdvance == 2

(* --------------------------- program constants ------------------------ *)
InitialMaxCwnd == 1000
congestion_threshold_rtt == 100
MsPerSecond == 1000

(* ------------------------------ rationals ----------------------------- *)
RECURSIVE GCD(_, _)
GCD(a, b) == IF b = 0 THEN a ELSE GCD(b, a % b)

Abs(x) == IF x < 0 THEN -x ELSE x

\* the float n/d, in lowest terms with a positive denominator
Rat(n, d) ==
    LET s == IF d < 0 THEN -1 ELSE 1
        g == GCD(Abs(n), Abs(d))
    IN  <<(s * n) \div g, (s * d) \div g>>

RatOfInt(i) == <<i, 1>>
RatAdd(x, y) == Rat(x[1] * y[2] + y[1] * x[2], x[2] * y[2])
RatSub(x, y) == Rat(x[1] * y[2] - y[1] * x[2], x[2] * y[2])
RatMul(x, y) == Rat(x[1] * y[1], x[2] * y[2])
RatDiv(x, y) == Rat(x[1] * y[2], x[2] * y[1])
RatLT(x, y) == x[1] * y[2] < y[1] * x[2]
RatLE(x, y) == x[1] * y[2] <= y[1] * x[2]
RatMin(x, y) == IF RatLE(x, y) THEN x ELSE y

One == RatOfInt(1)
Zero == RatOfInt(0)

(* ------------------------------ optionals ----------------------------- *)
None == <<>>
Some(x) == <<x>>
IsNone(o) == o = <<>>
Val(o) == o[1]

(* --------------------------- field parsing ---------------------------- *)
\* A packet field is the text tshark printed, a sequence of characters.
Digits == {"0", "1", "2", "3", "4", "5", "6", "7", "8", "9"}

DigitVal(c) ==
    CASE c = "0" -> 0 [] c = "1" -> 1 [] c = "2" -> 2 [] c = "3" -> 3
      [] c = "4" -> 4 [] c = "5" -> 5 [] c = "6" -> 6 [] c = "7" -> 7
      [] c = "8" -> 8 [] c = "9" -> 9

RECURSIVE DigitsValue(_)
DigitsValue(s) ==
    IF s = <<>> THEN 0
    ELSE 10 * DigitsValue(SubSeq(s, 1, Len(s) - 1)) + DigitVal(s[Len(s)])

RECURSIVE Pow10(_)
Pow10(k) == IF k = 0 THEN 1 ELSE 10 * Pow10(k - 1)

AllDigits(s) == \A i \in 1..Len(s) : s[i] \in Digits

\* int(text): the number, or None where Python raises ValueError
ParseInt(s) ==
    IF Len(s) > 0 /\ AllDigits(s) THEN Some(DigitsValue(s)) ELSE None

\* float(text): the number, or None where Python raises ValueError
ParseFloat(s) ==
    LET dots == {i \in 1..Len(s) : s[i] = "."}
    IN  IF dots = {}
        THEN IF Len(s) > 0 /\ AllDigits(s)
             THEN Some(RatOfInt(DigitsValue(s))) ELSE None
        ELSE IF Cardinality(dots) > 1 THEN None
        ELSE LET p == CHOOSE i \in dots : TRUE
                 ip == SubSeq(s, 1, p - 1)
                 fp == SubSeq(s, p + 1, Len(s))
             IN  IF Len(ip) + Len(fp) > 0 /\ AllDigits(ip) /\ AllDigits(fp)
                 THEN Some(Rat(DigitsValue(ip) * Pow10(Len(fp)) + DigitsValue(fp),
                               Pow10(Len(fp))))
                 ELSE None

(* ------------------------------ packets ------------------------------- *)
\* texts of tcp.window_size_value the capture may deliver
W100 == <<"1", "0", "0">>
W500 == <<"5", "0", "0">>
W2000 == <<"2", "0", "0", "0">>
\* texts of tcp.analysis_ack_rtt (seconds) the capture may deliver
R50 == <<"0", ".", "0", "5">>
R150 == <<"0", ".", "1", "5">>
\* a text neither int() nor float() accepts
Bad == <<"x">>

\* a TCP packet with its two optional fields
Pk(w, r) == [tcp |-> TRUE, window |-> w, rtt |-> r]

\* the packets the capture may deliver: both fields valid, one absent, one
\* malformed, and a packet without a TCP layer
Packets ==
    { Pk(Some(W100), Some(R150)), Pk(Some(W500), Some(R50)),
      Pk(Some(W100), Some(R50)), Pk(Some(W2000), None),
      Pk(Some(Bad), Some(R50)), Pk(Some(W500), Some(Bad)),
      Pk(None, Some(R150)),
      [tcp |-> FALSE, window |-> None, rtt |-> None] }

NoPacket == [tcp |-> FALSE, window |-> None, rtt |-> None]

\* values of the constructor argument congestion_threshold_cwnd
ThresholdChoices == {Rat(7, 10), Rat(1, 2)}
\* values time.time() may return while __init__ runs
EpochChoices == {0, 1}

(* ------------------------------- state -------------------------------- *)
VARIABLES
    now,                    \* time.time() at its last reading
    start_time,
    last_throughput_time,
    congestion_threshold_cwnd,
    time_values, cwnd_values, rtt_values, throughput_values, congestion_values,
    congestion_events,
    max_cwnd,
    packet_count,
    latest_cwnd, latest_rtt,
    lock,                   \* "free", "ingest" or "tick"
    pc_ingest,              \* position of capture_packets
    packet,                 \* the packet capture_packets is handling
    pc_tick,                \* position of update_plot
    current_time,           \* update_plot's local
    ticks,                  \* update_plot calls completed
    received,               \* packets delivered by the capture
    sampled,                \* sum of packets_since_last over all ticks
    prev_tick_time,         \* current_time of the previous update_plot call
    expected                \* <<window size, RTT in ms>> of the most recent
                            \* counted packets that carried a valid one

vars == <<now, start_time, last_throughput_time, congestion_threshold_cwnd,
          time_values, cwnd_values, rtt_values, throughput_values,
          congestion_values, congestion_events, max_cwnd, packet_count,
          latest_cwnd, latest_rtt, lock, pc_ingest, packet, pc_tick,
          current_time, ticks, received, sampled, prev_tick_time, expected>>

histories == <<time_values, cwnd_values, rtt_values, throughput_values,
               congestion_values>>
shared == <<max_cwnd, packet_count, latest_cwnd, latest_rtt>>
config == <<start_time, congestion_threshold_cwnd>>
ingest_vars == <<pc_ingest, packet, received, expected>>
tick_vars == <<pc_tick, current_time, ticks, sampled, prev_tick_time>>

\* deque(maxlen=history_length).append(x)
DequeAppend(q, x) ==
    IF history_length = 0 THEN q
    ELSE IF Len(q) >= history_length THEN Append(Tail(q), x)
    ELSE Append(q, x)

Init ==
    /\ \E t0 \in EpochChoices :
          /\ now = t0
          /\ last_throughput_time = t0
          /\ start_time = t0
    /\ congestion_threshold_cwnd \in ThresholdChoices
    /\ time_values = DequeAppend(<<>>, 0)
    /\ cwnd_values = DequeAppend(<<>>, Some(0))
    /\ rtt_values = DequeAppend(<<>>, Some(Zero))
    /\ throughput_values = DequeAppend(<<>>, Zero)
    /\ congestion_values = DequeAppend(<<>>, Some(Zero))
    /\ congestion_events = <<>>
    /\ max_cwnd = InitialMaxCwnd
    /\ packet_count = 0
    /\ latest_cwnd = None
    /\ latest_rtt = None
    /\ lock = "free"
    /\ pc_ingest = "recv"
    /\ packet = NoPacket
    /\ pc_tick = "idle"
    /\ current_time = 0
    /\ ticks = 0
    /\ received = 0
    /\ sampled = 0
    /\ prev_tick_time = 0
    /\ expected = <<None, None>>

(* ------------------------- capture_packets ---------------------------- *)
\* for packet in capture.sniff_continuously(): the next packet arrives
Receive ==
    /\ pc_ingest = "recv"
    /\ received < MaxPackets
    /\ \E p \in Packets : packet' = p
    /\ received' = received + 1
    /\ pc_ingest' = "lock"
    /\ UNCHANGED <<now, last_throughput_time, config, histories,
                   congestion_events, shared, lock, tick_vars, expected>>

\* a variant whose failure path clears the latest observations
CaptureFailClears ==
    /\ pc_ingest = "recv"
    /\ pc_ingest' = "dead"
    /\ latest_cwnd' = None
    /\ latest_rtt' = None
    /\ UNCHANGED <<now, last_throughput_time, config, histories,
                   congestion_events, max_cwnd, packet_count, lock, packet,
                   received, tick_vars, expected>>

\* sniff_continuously() raises: the outer except logs and the thread ends
CaptureFail ==
    /\ pc_ingest = "recv"
    /\ pc_ingest' = "dead"
    /\ UNCHANGED <<now, last_throughput_time, config, histories,
                   congestion_events, shared, lock, packet, received,
                   tick_vars, expected>>

\* a variant without the with statement: the thread goes on unlocked
IngestWithoutLock ==
    /\ pc_ingest = "lock"
    /\ pc_ingest' = "count"
    /\ UNCHANGED <<now, last_throughput_time, config, histories,
                   congestion_events, shared, lock, packet, received, tick_vars,
                   expected>>

\* with self.lock:
IngestLock ==
    /\ pc_ingest = "lock"
    /\ lock = "free"
    /\ lock' = "ingest"
    /\ pc_ingest' = "count"
    /\ UNCHANGED <<now, last_throughput_time, config, histories,
                   congestion_events, shared, packet, received, tick_vars,
                   expected>>

\* a variant that counts only packets with a TCP layer
CountPacketTcpOnly(count, p) == IF p.tcp THEN count + 1 ELSE count

\* self.packet_count += 1
CountPacket(count, p) == count + 1

\* what a packet's fields say on their own: the valid window size and the
\* valid RTT (in ms) it carries, else the values before it
Carried(p, before) ==
    << IF p.tcp /\ ~IsNone(p.window) /\ ~IsNone(ParseInt(Val(p.window)))
       THEN ParseInt(Val(p.window)) ELSE before[1],
       IF p.tcp /\ ~IsNone(p.rtt) /\ ~IsNone(ParseFloat(Val(p.rtt)))
       THEN Some(RatMul(Val(ParseFloat(Val(p.rtt))), RatOfInt(1000)))
       ELSE before[2] >>

IngestCount ==
    /\ pc_ingest = "count"
    /\ packet_count' = CountPacket(packet_count, packet)
    /\ expected' = Carried(packet, expected)
    /\ pc_ingest' = "cwnd"
    /\ UNCHANGED <<now, last_throughput_time, config, histories,
                   congestion_events, max_cwnd, latest_cwnd, latest_rtt, lock,
                   packet, received, tick_vars>>

\* The window-size statements of one packet: "raise" where packet.tcp or
\* int() raises, else the new latest_cwnd.
WindowStep(p, cwnd) ==
    IF ~p.tcp THEN [raise |-> TRUE, cwnd |-> cwnd]
    ELSE IF IsNone(p.window) THEN [raise |-> FALSE, cwnd |-> cwnd]
    ELSE IF IsNone(ParseInt(Val(p.window))) THEN [raise |-> TRUE, cwnd |-> cwnd]
    ELSE [raise |-> FALSE, cwnd |-> ParseInt(Val(p.window))]

\* The RTT statements of one packet: "raise" where float() raises, else the
\* new latest_rtt in milliseconds.
RttStep(p, rtt) ==
    IF IsNone(p.rtt) THEN [raise |-> FALSE, rtt |-> rtt]
    ELSE IF IsNone(ParseFloat(Val(p.rtt))) THEN [raise |-> TRUE, rtt |-> rtt]
    ELSE [raise |-> FALSE,
          rtt |-> Some(RatMul(Val(ParseFloat(Val(p.rtt))), RatOfInt(MsPerSecond)))]

\* The window-size statements; where they raise, the thread continues at
\* raise_pc with the lock in state raise_lock.
IngestCwndRaising(raise_pc, raise_lock) ==
    /\ pc_ingest = "cwnd"
    /\ LET r == WindowStep(packet, latest_cwnd)
       IN  /\ latest_cwnd' = r.cwnd
           /\ IF r.raise
              THEN /\ lock' = raise_lock
                   /\ pc_ingest' = raise_pc
                   /\ packet' = NoPacket
              ELSE /\ pc_ingest' = "rtt"
                   /\ UNCHANGED <<lock, packet>>
    /\ UNCHANGED <<now, last_throughput_time, config, histories,
                   congestion_events, max_cwnd, packet_count, latest_rtt,
                   received, tick_vars, expected>>

\* a variant that raises max_cwnd as soon as a window size is stored
IngestCwndTracksMax ==
    /\ pc_ingest = "cwnd"
    /\ LET r == WindowStep(packet, latest_cwnd)
       IN  /\ latest_cwnd' = r.cwnd
           /\ max_cwnd' = IF ~IsNone(r.cwnd) /\ Val(r.cwnd) > max_cwnd
                          THEN Val(r.cwnd) ELSE max_cwnd
           /\ IF r.raise
              THEN /\ lock' = "free"
                   /\ pc_ingest' = "recv"
                   /\ packet' = NoPacket
              ELSE /\ pc_ingest' = "rtt"
                   /\ UNCHANGED <<lock, packet>>
    /\ UNCHANGED <<now, last_throughput_time, config, histories,
                   congestion_events, packet_count, latest_rtt,
                   received, tick_vars, expected>>

\* a variant without the inner try: a field error ends the capture thread
IngestCwndFatal == IngestCwndRaising("dead", "free")

\* a variant that leaves the lock held when a field error is raised
IngestCwndKeepsLock == IngestCwndRaising("recv", "ingest")

\* if hasattr(packet.tcp, 'window_size_value'): ...  An exception leaves the
\* with block (the lock is released) and the handler continues the loop.
IngestCwnd == IngestCwndRaising("recv", "free")

\* if hasattr(packet.tcp, 'analysis_ack_rtt'): ...  then the with block ends
IngestRtt ==
    /\ pc_ingest = "rtt"
    /\ latest_rtt' = RttStep(packet, latest_rtt).rtt
    /\ lock' = "free"
    /\ pc_ingest' = "recv"
    /\ packet' = NoPacket
    /\ UNCHANGED <<now, last_throughput_time, config, histories,
                   congestion_events, max_cwnd, packet_count, latest_cwnd,
                   received, tick_vars, expected>>

(* ---------------------------- update_plot ----------------------------- *)
\* current_time = time.time() - self.start_time.  The clock is read nowhere
\* else, so the time that passed since the last reading is chosen here.
TickStart ==
    /\ pc_tick = "idle"
    /\ ticks < MaxTicks
    /\ \E d \in 0..(start_time + MaxAdvance - now) : now' = now + d
    /\ current_time' = now' - start_time
    /\ pc_tick' = "lock"
    /\ UNCHANGED <<last_throughput_time, config, histories,
                   congestion_events, shared, lock, ingest_vars, ticks,
                   sampled, prev_tick_time>>

\* with self.lock:
TickLock ==
    /\ pc_tick = "lock"
    /\ lock = "free"
    /\ lock' = "tick"
    /\ pc_tick' = "throughput"
    /\ UNCHANGED <<now, last_throughput_time, config, histories,
                   congestion_events, shared, ingest_vars, current_time, ticks,
                   sampled, prev_tick_time>>

\* throughput = packets_since_last / time_elapsed
Throughput(packets_since_last, time_elapsed) ==
    Rat(packets_since_last, time_elapsed)

\* a variant that only avoids the division by zero
ElapsedNonZero(time_elapsed) == time_elapsed # 0

\* if time_elapsed > 0
ElapsedPositive(time_elapsed) == time_elapsed > 0

\* the throughput statements: read packet_count and set it to count_after,
\* append if time moved
TickThroughputLeaving(count_after) ==
    /\ pc_tick = "throughput"
    /\ LET packets_since_last == packet_count
           time_elapsed == current_time - last_throughput_time
       IN  /\ packet_count' = count_after
           /\ sampled' = sampled + packets_since_last
           /\ IF ElapsedPositive(time_elapsed)
              THEN /\ throughput_values' =
                         DequeAppend(throughput_values,
                                     Throughput(packets_since_last, time_elapsed))
                   /\ last_throughput_time' = current_time
              ELSE UNCHANGED <<throughput_values, last_throughput_time>>
    /\ pc_tick' = "sample"
    /\ UNCHANGED <<now, config, time_values, cwnd_values, rtt_values,
                   congestion_values, congestion_events, max_cwnd, latest_cwnd,
                   latest_rtt, lock, ingest_vars, current_time, ticks,
                   prev_tick_time>>

\* a variant that reads packet_count without zeroing it
TickThroughputKeepsCount == TickThroughputLeaving(packet_count)

\* packets_since_last = self.packet_count; self.packet_count = 0; ...
TickThroughput == TickThroughputLeaving(0)

\* a variant with the comparison reversed
UpdateMaxCwndReversed(mx, cwnd) ==
    IF ~IsNone(cwnd) /\ Val(cwnd) < mx THEN Val(cwnd) ELSE mx

\* a variant that stores the latest window size without comparing
UpdateMaxCwndAlways(mx, cwnd) == IF ~IsNone(cwnd) THEN Val(cwnd) ELSE mx

\* if self.latest_cwnd > self.max_cwnd: self.max_cwnd = self.latest_cwnd
UpdateMaxCwnd(mx, cwnd) ==
    IF ~IsNone(cwnd) /\ Val(cwnd) > mx THEN Val(cwnd) ELSE mx

\* the time, window-size and RTT appends
TickSample ==
    /\ pc_tick = "sample"
    /\ time_values' = DequeAppend(time_values, current_time)
    /\ cwnd_values' = DequeAppend(cwnd_values, latest_cwnd)
    /\ max_cwnd' = UpdateMaxCwnd(max_cwnd, latest_cwnd)
    /\ rtt_values' = DequeAppend(rtt_values, latest_rtt)
    /\ pc_tick' = "score"
    /\ UNCHANGED <<now, last_throughput_time, config, throughput_values,
                   congestion_values, congestion_events, packet_count,
                   latest_cwnd, latest_rtt, lock, ingest_vars, current_time,
                   ticks, sampled, prev_tick_time>>

\* a variant that does not clamp the RTT term
calculate_congestion_unclamped(rtt, cwnd, mx) ==
    IF IsNone(rtt) \/ IsNone(cwnd) THEN None
    ELSE LET norm_rtt == RatDiv(Val(rtt), RatOfInt(congestion_threshold_rtt))
             norm_cwnd == IF mx > 0
                          THEN RatSub(One, RatMin(One, Rat(Val(cwnd), mx)))
                          ELSE Zero
         IN  Some(RatDiv(RatAdd(norm_rtt, norm_cwnd), RatOfInt(2)))

\* a variant that takes the window term without inverting it
calculate_congestion_uninverted(rtt, cwnd, mx) ==
    IF IsNone(rtt) \/ IsNone(cwnd) THEN None
    ELSE LET norm_rtt == RatMin(One, RatDiv(Val(rtt),
                                             RatOfInt(congestion_threshold_rtt)))
             norm_cwnd == IF mx > 0
                          THEN RatMin(One, Rat(Val(cwnd), mx))
                          ELSE Zero
         IN  Some(RatDiv(RatAdd(norm_rtt, norm_cwnd), RatOfInt(2)))

\* def calculate_congestion(self, rtt, cwnd), reading self.max_cwnd
calculate_congestion(rtt, cwnd, mx) ==
    IF IsNone(rtt) \/ IsNone(cwnd) THEN None
    ELSE LET norm_rtt == RatMin(One, RatDiv(Val(rtt),
                                             RatOfInt(congestion_threshold_rtt)))
             norm_cwnd == IF mx > 0
                          THEN RatSub(One, RatMin(One, Rat(Val(cwnd), mx)))
                          ELSE Zero
         IN  Some(RatDiv(RatAdd(norm_rtt, norm_cwnd), RatOfInt(2)))

\* the literal of "if congestion > 0.7"
EventThreshold == Rat(7, 10)

\* if congestion > 0.7
IsCongested(congestion) == RatLT(EventThreshold, congestion)

\* the congestion statements, then the with block ends; the latest
\* observations are left as cwnd_after and rtt_after
TickScoreLeaving(cwnd_after, rtt_after) ==
    /\ pc_tick = "score"
    /\ LET congestion == calculate_congestion(latest_rtt, latest_cwnd, max_cwnd)
       IN  /\ congestion_values' = DequeAppend(congestion_values, congestion)
           /\ congestion_events' =
                 IF ~IsNone(congestion) /\ IsCongested(Val(congestion))
                 THEN Append(congestion_events, current_time)
                 ELSE congestion_events
    /\ lock' = "free"
    /\ pc_tick' = "idle"
    /\ ticks' = ticks + 1
    /\ prev_tick_time' = current_time
    /\ latest_cwnd' = cwnd_after
    /\ latest_rtt' = rtt_after
    /\ UNCHANGED <<now, last_throughput_time, config, time_values, cwnd_values,
                   rtt_values, throughput_values, max_cwnd, packet_count,
                   ingest_vars, current_time, sampled>>

\* a variant that clears the latest observations once they are sampled
TickScoreClears == TickScoreLeaving(None, None)

\* congestion = self.calculate_congestion(...); ...; the lock is released
TickScore == TickScoreLeaving(latest_cwnd, latest_rtt)

\* capture_packets is inside its with block
IngestRunning == pc_ingest \in {"count", "cwnd", "rtt"}

\* update_plot is inside its with block
TickRunning == pc_tick \in {"throughput", "sample", "score"}

Next ==
    \/ Receive
    \/ CaptureFail
    \/ IngestLock
    \/ IngestCount
    \/ IngestCwnd
    \/ IngestRtt
    \/ TickStart
    \/ TickLock
    \/ TickThroughput
    \/ TickSample
    \/ TickScore

Spec == Init /\ [][Next]_vars

\* The statements of each thread that can run: those inside the with block,
\* and the lock acquisition while the lock is free.
IngestCanStep == (pc_ingest = "lock" /\ lock = "free") \/ IngestRunning
TickCanStep == (pc_tick = "lock" /\ lock = "free") \/ TickRunning
IngestStep == IngestLock \/ IngestCount \/ IngestCwnd \/ IngestRtt
TickStep == TickLock \/ TickThroughput \/ TickSample \/ TickScore

\* Both threads keep running: weak fairness of each thread's statements,
\* WF_vars(IngestStep) and WF_vars(TickStep), written with the guards in
\* place of ENABLED.  Packet arrival, capture failure and the timer are
\* left to the environment.
Fairness ==
    /\ ([]<>(~IngestCanStep) \/ []<><<IngestStep>>_vars)
    /\ ([]<>(~TickCanStep) \/ []<><<TickStep>>_vars)

FairSpec == Spec /\ Fairness

(* ====================== properties of the program ===================== *)
Last(q) == q[Len(q)]

\* update_plot is not between its first and last statement under the lock
BetweenTicks == pc_tick \in {"idle", "lock"}

\* the step that ends an update_plot call
EndsTick == pc_tick = "score" /\ pc_tick' = "idle"

\* the step that runs update_plot's throughput statements
ThroughputStep == pc_tick = "throughput" /\ pc_tick' = "sample"

\* x lies in [0, 1]
InUnitInterval(x) == RatLE(Zero, x) /\ RatLE(x, One)

(* C1: between ticks, however ticks and packets interleave, the five      *)
(* history sequences have one common length, and it is at most            *)
(* history_length.                                                        *)
C1_EqualLengths ==
    BetweenTicks =>
        /\ Len(cwnd_values) = Len(time_values)
        /\ Len(rtt_values) = Len(time_values)
        /\ Len(throughput_values) = Len(time_values)
        /\ Len(congestion_values) = Len(time_values)
        /\ Len(time_values) <= history_length

(* C2: a tick records a congestion event exactly when its score is        *)
(* defined and strictly greater than the configured threshold             *)
(* (congestion_threshold_cwnd).                                           *)
C2_EventIffAboveConfigured ==
    [][EndsTick =>
         ((congestion_events' # congestion_events)
            <=> (/\ ~IsNone(Last(congestion_values'))
                 /\ RatLT(congestion_threshold_cwnd,
                          Val(Last(congestion_values')))))]_vars

(* C3: a tick that starts strictly later than the previous tick (or than  *)
(* the start, for the first one) appends the throughput                   *)
(* packets since the previous tick / seconds since the previous tick.     *)
C3_ThroughputPerTick ==
    [][(ThroughputStep /\ current_time > prev_tick_time) =>
         throughput_values' =
             DequeAppend(throughput_values,
                         Rat(packet_count, current_time - prev_tick_time))]_vars

(* C4: calculate_congestion returns a score in [0, 1] for every rtt >= 0, *)
(* window >= 0 and max window > 0, and every score in the congestion      *)
(* history lies in [0, 1].                                                *)
C4_ScoreInUnitInterval ==
    /\ \A i \in 1..Len(congestion_values) :
          IsNone(congestion_values[i])
             \/ InUnitInterval(Val(congestion_values[i]))
    \* the function itself, on sample arguments (evaluated before any step)
    /\ (received = 0 /\ ticks = 0 /\ pc_tick = "idle") =>
          \A r \in {Zero, RatOfInt(50), RatOfInt(100), RatOfInt(150), Rat(1001, 10)} :
          \A c \in {0, 1, 100, 500, 1000, 2000} :
          \A m \in {1, 100, 1000, 2000} :
             InUnitInterval(Val(calculate_congestion(Some(r), Some(c), m)))

\* a tick has appended the score 0.95, computed from rtt 150 ms above the
\* threshold and a window of 100 below the maximum 1000
C4_Witness ==
    /\ ticks > 0
    /\ BetweenTicks
    /\ latest_rtt = Some(RatOfInt(150))
    /\ Last(congestion_values) = Some(Rat(19, 20))

(* C5: max_cwnd never decreases, whatever step is taken.                  *)
C5_MaxNeverDecreases == [][max_cwnd' >= max_cwnd]_vars

\* the maximum was raised to 2000 and a later tick sampled the smaller 500
C5_Witness ==
    /\ max_cwnd = 2000
    /\ BetweenTicks
    /\ Last(cwnd_values) = Some(500)

(* C6: after more ticks than history_length, each of the five sequences   *)
(* holds exactly history_length entries, the most recent samples.         *)
C6_FullAfterEnoughTicks ==
    (BetweenTicks /\ ticks > history_length) =>
        /\ Len(time_values) = history_length
        /\ Len(cwnd_values) = history_length
        /\ Len(rtt_values) = history_length
        /\ Len(throughput_values) = history_length
        /\ Len(congestion_values) = history_length
        /\ Last(time_values) = prev_tick_time

(* C7: with rtt and window both present the score appended by a tick is   *)
(* (min(1, rtt/threshold) + norm_window) / 2, norm_window being           *)
(* 1 - min(1, window/max) when max > 0 and 0 otherwise; window 500,       *)
(* max 1000, rtt 50 gives 0.5 and no event; window 100, max 1000, rtt 150 *)
(* gives 0.95 and an event on that tick.                                  *)
C7_ScoreFormula ==
    [][(EndsTick /\ ~IsNone(latest_rtt) /\ ~IsNone(latest_cwnd)) =>
         LET rn == Val(latest_rtt)[1]
             rd == Val(latest_rtt)[2] * congestion_threshold_rtt
             c == Val(latest_cwnd)
             m == max_cwnd
             s == Val(Last(congestion_values'))
             \* norm_rtt = a / rd, norm_window = b / wd
             a == IF rn < rd THEN rn ELSE rd
             b == IF m > 0 THEN (IF c < m THEN m - c ELSE 0) ELSE 0
             wd == IF m > 0 THEN m ELSE 1
             recorded == congestion_events' = Append(congestion_events, current_time)
         IN  /\ ~IsNone(Last(congestion_values'))
             /\ 2 * s[1] * rd * wd = s[2] * (a * wd + b * rd)
             /\ (c = 500 /\ m = 1000 /\ Val(latest_rtt) = RatOfInt(50)) =>
                   (s = Rat(1, 2) /\ congestion_events' = congestion_events)
             /\ (c = 100 /\ m = 1000 /\ Val(latest_rtt) = RatOfInt(150)) =>
                   (s = Rat(19, 20) /\ recorded)]_vars

\* one tick scored 0.5 without an event, the next scored 0.95 with one
C7_Witness ==
    /\ BetweenTicks
    /\ congestion_values = <<Some(Rat(1, 2)), Some(Rat(19, 20))>>
    /\ Len(congestion_events) = 1
    /\ max_cwnd = 1000

(* C8: a tick on which rtt or window is absent appends the missing marker *)
(* to the congestion sequence and records no event, and still appends a   *)
(* value to the time sequence and to the throughput sequence.             *)
C8_MissingScoreKeepsAlignment ==
    [][(IsNone(latest_rtt) \/ IsNone(latest_cwnd)) =>
         /\ EndsTick =>
               /\ congestion_values' = DequeAppend(congestion_values, None)
               /\ congestion_events' = congestion_events
         /\ (pc_tick = "sample" /\ pc_tick' = "score") =>
               time_values' = DequeAppend(time_values, current_time)
         /\ ThroughputStep =>
               throughput_values' =
                   DequeAppend(throughput_values, Last(throughput_values'))]_vars

(* C9: the two fields of a packet are handled independently: a valid RTT  *)
(* sets latest_rtt (in ms) and a valid window size sets latest_cwnd,      *)
(* whatever the other field is; an absent or malformed field leaves its   *)
(* value as it was.                                                       *)
C9_FieldsIndependent ==
    [][/\ (pc_ingest = "cwnd" /\ pc_ingest' # "cwnd") =>
             latest_cwnd' =
                 IF packet.tcp /\ ~IsNone(packet.window)
                               /\ ~IsNone(ParseInt(Val(packet.window)))
                 THEN ParseInt(Val(packet.window))
                 ELSE latest_cwnd
       /\ (pc_ingest \in {"cwnd", "rtt"} /\ pc_ingest' = "recv") =>
             latest_rtt' =
                 IF packet.tcp /\ ~IsNone(packet.rtt)
                               /\ ~IsNone(ParseFloat(Val(packet.rtt)))
                 THEN Some(RatMul(Val(ParseFloat(Val(packet.rtt))),
                                  RatOfInt(1000)))
                 ELSE latest_rtt]_vars

(* C10: handling a packet adds exactly 1 to packet_count, with the lock   *)
(* held, before anything of the packet is looked at: with or without a    *)
(* TCP layer, fields or a field error; no other statement of the capture  *)
(* thread changes packet_count.                                           *)
C10_CountsEveryPacket ==
    [][/\ (pc_ingest = "lock" /\ pc_ingest' # "lock") => pc_ingest' = "count"
       /\ (pc_ingest = "count" /\ pc_ingest' # "count") =>
             (lock = "ingest" /\ packet_count' = packet_count + 1)
       /\ (lock = "ingest" /\ pc_ingest # "count") =>
             packet_count' = packet_count]_vars

\* two packets were counted since the last tick: the second has no TCP layer
C10_Witness ==
    /\ pc_ingest = "cwnd"
    /\ ~packet.tcp
    /\ received = 2
    /\ packet_count = 2

(* C11: the capture thread and a tick touch latest_cwnd, latest_rtt,      *)
(* packet_count and max_cwnd only while holding the one lock, so from a   *)
(* tick's read-and-zero of packet_count to its score no statement of the  *)
(* capture thread runs and those fields change only by the tick itself.   *)
C11_SharedStateUnderLock ==
    [][/\ (TickRunning <=> lock = "tick")'
       /\ (IngestRunning <=> lock = "ingest")'
       /\ (shared' # shared) => (TickRunning \/ IngestRunning)
       /\ TickRunning =>
             /\ latest_cwnd' = latest_cwnd
             /\ latest_rtt' = latest_rtt
             /\ (pc_ingest' # pc_ingest => pc_ingest \in {"recv"})
             /\ (packet_count' # packet_count => pc_tick = "throughput")
             /\ (max_cwnd' # max_cwnd => pc_tick = "sample")]_vars

\* a tick is between its read-and-zero and its score while a packet that
\* would change the window size waits for the lock
C11_Witness ==
    /\ pc_tick = "sample"
    /\ lock = "tick"
    /\ pc_ingest = "lock"
    /\ packet = Pk(Some(W2000), None)
    /\ latest_cwnd = Some(500)

(* C12: once sniff_continuously() has failed the capture thread stays     *)
(* ended: it takes no packet, counts nothing and writes no field; it     *)
(* ends without the lock, so a tick waiting for the lock finds it free;  *)
(* the failure itself leaves latest_cwnd and latest_rtt as they were,    *)
(* and every later tick appends exactly those values.                    *)
C12_CaptureFailureLeavesSampler ==
    [][/\ pc_ingest = "dead" =>
             /\ pc_ingest' = "dead"
             /\ received' = received
             /\ expected' = expected
             /\ packet_count' <= packet_count
       /\ pc_ingest' = "dead" =>
             /\ lock' # "ingest"
             /\ latest_cwnd' = latest_cwnd
             /\ latest_rtt' = latest_rtt
             /\ (pc_tick' = "lock" => lock' = "free")
             /\ (pc_tick = "sample" /\ pc_tick' = "score") =>
                   /\ Last(cwnd_values') = latest_cwnd
                   /\ Last(rtt_values') = latest_rtt]_vars

\* the capture failed after one packet; two ticks have appended its window
\* size and a third is running
C12_Witness ==
    /\ pc_ingest = "dead"
    /\ received = 1
    /\ ticks = 2
    /\ pc_tick = "score"
    /\ cwnd_values = <<Some(100), Some(100)>>
    /\ latest_cwnd = Some(100)

\* the smaller of two numbers
Min(a, b) == IF a < b THEN a ELSE b

(* C13: between ticks each of the five histories holds as many entries   *)
(* as ticks have completed, capped at history_length: none before the    *)
(* first tick.                                                           *)
C13_OneSamplePerTick ==
    BetweenTicks =>
        /\ Len(time_values) = Min(ticks, history_length)
        /\ Len(cwnd_values) = Min(ticks, history_length)
        /\ Len(rtt_values) = Min(ticks, history_length)
        /\ Len(throughput_values) = Min(ticks, history_length)
        /\ Len(congestion_values) = Min(ticks, history_length)

\* update_plot runs at a time not later than its previous call
NoTimeSincePreviousTick == current_time <= prev_tick_time

(* C14: a tick at which no time has passed since the previous tick       *)
(* computes no throughput: throughput_values and last_throughput_time    *)
(* stay as they are; the tick goes on to append its time, window size,   *)
(* RTT and score and ends normally.                                      *)
C14_NoThroughputWithoutElapsedTime ==
    [][NoTimeSincePreviousTick =>
          /\ (pc_tick = "throughput" /\ pc_tick' # pc_tick) =>
                /\ throughput_values' = throughput_values
                /\ last_throughput_time' = last_throughput_time
                /\ pc_tick' = "sample"
          /\ (pc_tick = "sample" /\ pc_tick' # pc_tick) =>
                /\ time_values' = DequeAppend(time_values, current_time)
                /\ cwnd_values' = DequeAppend(cwnd_values, latest_cwnd)
                /\ rtt_values' = DequeAppend(rtt_values, latest_rtt)
                /\ throughput_values' = throughput_values
                /\ pc_tick' = "score"
          /\ (pc_tick = "score" /\ pc_tick' # pc_tick) =>
                /\ congestion_values' =
                      DequeAppend(congestion_values,
                                  calculate_congestion(latest_rtt, latest_cwnd,
                                                       max_cwnd))
                /\ throughput_values' = throughput_values
                /\ ticks' = ticks + 1
                /\ pc_tick' = "idle"]_vars

\* the first tick computed a throughput; the second runs at the same time,
\* has read a counted packet and appended its time but no throughput
C14_Witness ==
    /\ start_time = 0
    /\ ticks = 1
    /\ pc_tick = "score"
    /\ current_time = prev_tick_time
    /\ current_time > 0
    /\ time_values = <<current_time, current_time>>
    /\ throughput_values[1] = Zero
    /\ Len(throughput_values) = 2
    /\ sampled = 1
    /\ last_throughput_time = current_time

(* C15: no statement of a tick changes latest_cwnd or latest_rtt; they   *)
(* change only where the capture thread stores a field a packet carries; *)
(* so while the value a tick appended is still the latest one, the next  *)
(* tick appends it again.                                                *)
C15_TickKeepsLatest ==
    [][/\ pc_tick' # pc_tick =>
             (latest_cwnd' = latest_cwnd /\ latest_rtt' = latest_rtt)
       /\ latest_cwnd' # latest_cwnd =>
             (pc_ingest = "cwnd" /\ ~IsNone(packet.window))
       /\ latest_rtt' # latest_rtt =>
             (pc_ingest = "rtt" /\ ~IsNone(packet.rtt))
       /\ (ticks > 0 /\ Last(cwnd_values) = latest_cwnd
                     /\ latest_cwnd' = latest_cwnd) =>
             Last(cwnd_values') = latest_cwnd'
       /\ (ticks > 0 /\ Last(rtt_values) = latest_rtt
                     /\ latest_rtt' = latest_rtt) =>
             Last(rtt_values') = latest_rtt']_vars

\* one packet, then two ticks: both appended its window size and its RTT
C15_Witness ==
    /\ received = 1
    /\ ticks = 2
    /\ BetweenTicks
    /\ cwnd_values = <<Some(500), Some(500)>>
    /\ rtt_values = <<Some(RatOfInt(50)), Some(RatOfInt(50))>>

(* C16: the window size and the RTT a tick appends are those of the most *)
(* recent packet, counted before the tick took the lock, that carried a  *)
(* valid window size, respectively a valid RTT; the missing marker if    *)
(* there was none.                                                       *)
C16_LastWriterWins ==
    [][(pc_tick = "sample" /\ pc_tick' = "score") =>
          /\ cwnd_values' = DequeAppend(cwnd_values, expected[1])
          /\ rtt_values' = DequeAppend(rtt_values, expected[2])]_vars

(* C17: a packet whose fields raise never ends the capture thread: the   *)
(* raising statement leaves the with block, which releases the lock, and *)
(* the loop waits for the next packet; the thread ends only where the    *)
(* capture itself fails, and never holds the lock while it waits.        *)
C17_FieldErrorIsNotFatal ==
    [][/\ (pc_ingest = "cwnd" /\ pc_ingest' # pc_ingest
             /\ WindowStep(packet, latest_cwnd).raise) =>
             (pc_ingest' = "recv" /\ lock = "ingest" /\ lock' = "free")
       /\ (pc_ingest = "rtt" /\ pc_ingest' # pc_ingest
             /\ RttStep(packet, latest_rtt).raise) =>
             (pc_ingest' = "recv" /\ lock = "ingest" /\ lock' = "free")
       /\ (pc_ingest' = "dead" => pc_ingest \in {"recv", "dead"})
       /\ (pc_ingest' = "recv" => lock' # "ingest")
       /\ (pc_ingest = "recv" /\ pc_ingest' = "lock") =>
             (received' = received + 1 /\ packet' \in Packets)]_vars

\* the first packet carried an RTT after a window size that does not
\* parse: a tick counted it and found neither field; the second packet has
\* since been counted and its window size stored
C17_Witness ==
    /\ pc_ingest = "recv"
    /\ lock = "free"
    /\ received = 2
    /\ ticks = 1
    /\ sampled = 1
    /\ packet_count = 1
    /\ Last(cwnd_values) = None
    /\ Last(rtt_values) = None
    /\ expected = <<Some(2000), Some(RatOfInt(50))>>
    /\ latest_cwnd = Some(2000)
    /\ latest_rtt = None

Counted == received - (IF pc_ingest \in {"lock", "count"} THEN 1 ELSE 0)

(* C19: in every state the packets read by the ticks so far plus         *)
(* packet_count are the packets counted so far: none is read by two      *)
(* ticks and none is lost between an increment and a read-and-zero.      *)
C19_PacketConservation ==
    /\ sampled + packet_count = Counted
    /\ sampled >= 0
    /\ packet_count >= 0

\* a tick has read one packet and a second one was counted after it
C19_Witness ==
    /\ sampled = 1
    /\ packet_count = 1
    /\ received = 2
    /\ ticks >= 1

\* the window sizes in the history are at most mx
BoundsHistory(mx) ==
    \A i \in DOMAIN cwnd_values :
        ~IsNone(cwnd_values[i]) => Val(cwnd_values[i]) <= mx

(* C20: when a tick ends max_cwnd is at least its initial value and at   *)
(* least every window size in the history; the maximum is raised before  *)
(* the score is computed, so a tick whose window size is the maximum     *)
(* appends a score made of the RTT term alone.                           *)
C20_MaxBoundsHistory ==
    [][EndsTick =>
          /\ max_cwnd' >= InitialMaxCwnd
          /\ BoundsHistory(max_cwnd)'
          /\ (~IsNone(latest_cwnd) /\ ~IsNone(latest_rtt)
                /\ Val(latest_cwnd) >= max_cwnd) =>
                Last(congestion_values') =
                   Some(RatDiv(RatMin(One,
                                      RatDiv(Val(latest_rtt),
                                             RatOfInt(congestion_threshold_rtt))),
                               RatOfInt(2)))]_vars

\* a packet with an RTT of 150 ms, then one with a window size of 2000: the
\* tick raised max_cwnd to 2000 and appended the score 1/2
C20_Witness ==
    /\ BetweenTicks
    /\ ticks >= 1
    /\ max_cwnd = 2000
    /\ max_cwnd > InitialMaxCwnd
    /\ Last(cwnd_values) = Some(2000)
    /\ Last(congestion_values) = Some(Rat(1, 2))

(* C21: no statement of the capture thread changes max_cwnd, the five    *)
(* histories, congestion_events or last_throughput_time; max_cwnd is     *)
(* raised only by a tick, to the window size that is the latest one at   *)
(* that tick, so a larger window size a later packet has overwritten by  *)
(* then never raises it.                                                 *)
C21_IngestFrame ==
    [][/\ pc_ingest' # pc_ingest =>
             /\ max_cwnd' = max_cwnd
             /\ histories' = histories
             /\ congestion_events' = congestion_events
             /\ last_throughput_time' = last_throughput_time
       /\ max_cwnd' # max_cwnd =>
             /\ pc_tick = "sample"
             /\ latest_cwnd = Some(max_cwnd')
             /\ latest_cwnd' = latest_cwnd]_vars

\* a window size of 2000 was stored and max_cwnd is still 1000; no tick
\* has run since, one waits for the lock, and the next packet is about to
\* overwrite the window size with 100
C21_Witness ==
    /\ pc_ingest = "cwnd"
    /\ packet = Pk(Some(W100), Some(R50))
    /\ latest_cwnd = Some(2000)
    /\ max_cwnd = InitialMaxCwnd
    /\ packet_count = 2
    /\ pc_tick = "lock"

====
